---- MODULE Spec2Model ----
(***************************************************************************)
(* A model of aqualink-control, an RS-485 "aqualink" bus master.           *)
(*                                                                         *)
(*   - the frame codec (aqualink_pack, aqualink_unpack,                    *)
(*     aqualink_msg_to_frame, aqualink_frame_to_msg), as operators over    *)
(*     byte sequences and over a byte-addressed memory;                    *)
(*   - the slave table (compare_dev_addr, lookup_slave, add_slave);        *)
(*   - the engine: the pending-frame queue, its timers, the read handler   *)
(*     and the two schedulers.                                             *)
(*                                                                         *)
(* Bytes are naturals in 0..255.  A pointer is a 1-based index into a      *)
(* memory (a sequence of bytes); NULL is 0.                                *)
(***************************************************************************)
EXTENDS Integers, Sequences, FiniteSets, TLC

VARIABLES
    \* ---- codec harness: one input and the results of the codec calls ----
    c_msg,      \* the input byte sequence (a payload / a sequence to stuff)
    c_pack,     \* <<>> or <<aqualink_pack(c_msg)>>
    c_unpack,   \* <<>> or <<aqualink_unpack of c_pack, into a disjoint dest>>
    c_frame,    \* <<>> or <<aqualink_msg_to_frame(c_msg)>>
    c_parse,    \* <<>> or <<aqualink_frame_to_msg of c_frame, disjoint dest>>
    c_flip,     \* <<>> or <<the single-bit changes of c_frame that
                \* aqualink_frame_to_msg accepts>>
    c_inplace,  \* <<>> or <<the results of unpacking and parsing with dest
                \* equal to the source, beside those with a disjoint dest>>
    \* ---- the program ----
    pc,         \* main's position: "startup", "running", "exited", "crashed"
    ctx,        \* struct aqua_ctx: slaves, pending_frames, the four timers,
                \* and stream (r: the read buffer, w: the frames written)
    next_id,    \* history: the serial number the next enqueued frame gets
    zero_calls, \* history: the add_slave calls made from the first one with
                \* address 0 on (0: address 0 was never added)
    ev          \* history: what the last handler did

codec_vars == <<c_msg, c_pack, c_unpack, c_frame, c_parse, c_flip,
                c_inplace>>

prog_vars == <<pc, ctx, next_id, zero_calls, ev>>

vars == <<c_msg, c_pack, c_unpack, c_frame, c_parse, c_flip, c_inplace,
          pc, ctx, next_id, zero_calls, ev>>

\* ------------------------------------------------------------------------
\* Bounds of the model
\* ------------------------------------------------------------------------

\* longest input of the codec harness
MaxMsgLen == 3

\* the byte values the codec harness draws its inputs from:
\* 00 (the stuffing byte), 02 and 03 (second delimiter bytes), 10 (escape),
\* 25 and 68 (the documented example), ee (ee + 10 gives checksum 10)
CodecBytes == {0, 2, 3, 16, 37, 104, 238}

\* the addresses add_slave is called with in RegistrySpec are 0..MaxRegAddr
MaxRegAddr == 11

\* the frames enqueued in one run of the program
MaxEnqueued == 2

\* the longest read buffer followed
MaxRxLen == 10

\* RegistrySpec follows a table for this many add_slave calls from the first
\* call with address 0 on
MaxZeroCalls == 1
\* the longest payload handed to aqualink_msg_to_frame when frame sizes are
\* examined
MaxPayloadLen == 30

\* ------------------------------------------------------------------------
\* Bytes and memory
\* ------------------------------------------------------------------------

NULL == 0

ESC == 16

aq_header == <<16, 2>>

aq_footer == <<16, 3>>

escape_seq == <<16, 0>>

Min(S) == CHOOSE x \in S : \A y \in S : x <= y

\* F applied to the value of e: e is evaluated once, as an assignment to a
\* local variable is
Let(e, F(_)) == CHOOSE y \in {F(v) : v \in {e}} : TRUE

\* n zero bytes (a destination buffer before it is written)
Zeros(n) == [i \in 1..n |-> 0]

\* the bytes mem[p .. p+n-1]
Bytes(mem, p, n) == [i \in 1..n |-> mem[p + i - 1]]

RECURSIVE copy_from_the_end(_, _, _, _)
\* a copy byte by byte from the highest address down: not memmove when dest
\* lies below src and the two ranges overlap
copy_from_the_end(mem, dest, src, n) ==
    IF n <= 0 THEN mem
    ELSE copy_from_the_end([mem EXCEPT ![dest + n - 1] = mem[src + n - 1]],
                           dest, src, n - 1)

\* memmove(dest, src, n) inside one memory: reads the old bytes, then writes
MemMove(mem, dest, src, n) ==
    [i \in DOMAIN mem |->
        IF i >= dest /\ i < dest + n THEN mem[src + (i - dest)] ELSE mem[i]]

\* memchr(buf, c, n): the first p in buf .. buf+n-1 with mem[p] = c
MemChr(mem, buf, c, n) ==
    Let({p \in buf..(buf + n - 1) : p \in DOMAIN mem /\ mem[p] = c},
        LAMBDA S : IF S = {} THEN NULL ELSE Min(S))

RECURSIVE MemFindLoop(_, _, _, _)
\* the do/while loop shared by both copies of memfind
MemFindLoop(mem, buf, len, needle) ==
    Let(MemChr(mem, buf, needle[1], len - 1),
        LAMBDA start :
            IF start # NULL /\ mem[start + 1] = needle[2] THEN start
            ELSE IF start = NULL THEN NULL
            ELSE Let(len - ((start + 1) - buf),
                     LAMBDA len1 : MemFindLoop(mem, start + 1, len1, needle)))

\* memfind of the framer: refuses len <= 1
framer_memfind(mem, buf, len, needle) ==
    IF len <= 1 THEN NULL ELSE MemFindLoop(mem, buf, len, needle)

RECURSIVE mod256_sum(_)
mod256_sum(buf) ==
    IF buf = <<>> THEN 0
    ELSE (mod256_sum(SubSeq(buf, 1, Len(buf) - 1)) + buf[Len(buf)]) % 256

\* ------------------------------------------------------------------------
\* Stuffing
\* ------------------------------------------------------------------------

\* aqualink_pack copying the bytes as they are, no 00 after a 10
pack_without_stuffing(src) == src

RECURSIVE aqualink_pack(_)
\* Escape [10] to [10 00]: copy up to and including the next 10, add a 00
aqualink_pack(src) ==
    IF src = <<>> THEN <<>>
    ELSE Let(MemChr(src, 1, ESC, Len(src)),
             LAMBDA next :
                 LET len == Len(src)
                     chunk_len == IF next # NULL THEN (next - 1) + 1 ELSE len
                 IN  SubSeq(src, 1, chunk_len)
                     \o (IF next # NULL THEN <<0>> ELSE <<>>)
                     \o aqualink_pack(SubSeq(src, chunk_len + 1, len)))

RECURSIVE UnpackLoop(_, _, _, _, _)
\* the while (src < end) loop of aqualink_unpack
UnpackLoop(mem, dest, src, end, start) ==
    IF ~(src < end) THEN [mem |-> mem, len |-> dest - start]
    ELSE Let(framer_memfind(mem, src + 1, (end - src) - 1, escape_seq),
             LAMBDA next :
                 LET len == end - src
                     move_len == IF next # NULL THEN (next - src) + 1 ELSE len
                 IN  Let(MemMove(mem, dest, src, move_len),
                         LAMBDA mem1 :
                             UnpackLoop(mem1, dest + move_len,
                                        src + move_len + 1, end, start)))

\* Unescape [10 00] to [10]: aqualink_unpack(dest, buf, len) in memory mem.
\* The result is the memory afterwards and the returned length.
aqualink_unpack(mem, dest, buf, len) ==
    Let(framer_memfind(mem, buf, len, escape_seq),
        LAMBDA src :
            IF src = NULL
            THEN [mem |-> IF dest # buf THEN MemMove(mem, dest, buf, len)
                                        ELSE mem,
                  len |-> len]
            ELSE LET len1 == (src - buf) + 1
                 IN  Let(IF dest # buf THEN MemMove(mem, dest, buf, len1)
                                       ELSE mem,
                         LAMBDA mem1 :
                             UnpackLoop(mem1, dest + len1, src + 2, buf + len,
                                        dest)))

\* aqualink_unpack of the sequence s into a destination disjoint from it:
\* the bytes written
UnpackDisjoint(s) ==
    Let(s \o Zeros(Len(s)),
        LAMBDA mem :
            Let(aqualink_unpack(mem, Len(s) + 1, 1, Len(s)),
                LAMBDA r : Bytes(r.mem, Len(s) + 1, r.len)))

\* ------------------------------------------------------------------------
\* Frames
\* ------------------------------------------------------------------------

\* aqualink_msg_to_frame with the checksum emitted as it is, never escaped
msg_to_frame_raw_sum(msg) ==
    Let(<<16, 2>> \o aqualink_pack(msg),
        LAMBDA body : body \o <<mod256_sum(body)>> \o <<16, 3>>)

\* aqualink_msg_to_frame with a 00 after the checksum whatever its value
msg_to_frame_pad_sum(msg) ==
    Let(<<16, 2>> \o aqualink_pack(msg),
        LAMBDA body : body \o <<mod256_sum(body), 0>> \o <<16, 3>>)

\* aqualink_msg_to_frame: the bytes written to dest (the return value is their
\* number)
aqualink_msg_to_frame(msg) ==
    Let(<<16, 2>> \o aqualink_pack(msg),
        LAMBDA body :
            Let(mod256_sum(body),
                LAMBDA sum :
                    body \o <<sum>> \o (IF sum = 16 THEN <<0>> ELSE <<>>)
                         \o <<16, 3>>))

\* aqualink_frame_to_msg without the comparison of the two sums
frame_to_msg_any_sum(mem, dest, frame, len) ==
    IF len < Len(aq_header) + Len(aq_footer) + 1
    THEN [ret |-> "EINVAL", len |-> 0, mem |-> mem]
    ELSE IF Bytes(mem, frame + len - Len(aq_footer), 2) # aq_footer
    THEN [ret |-> "EINVAL", len |-> 0, mem |-> mem]
    ELSE IF Bytes(mem, frame, 2) # aq_header
    THEN [ret |-> "EINVAL", len |-> 0, mem |-> mem]
    ELSE Let(aqualink_unpack(mem, dest, frame + Len(aq_header),
                             len - Len(aq_footer) - Len(aq_header)),
             LAMBDA u : [ret |-> "ok", len |-> u.len - 1, mem |-> u.mem])

\* aqualink_frame_to_msg(dest, frame, len) in memory mem: ret is the returned
\* int as an error name or "ok", len the returned length, mem the memory
\* afterwards (the message is mem[dest .. dest+len-1])
aqualink_frame_to_msg(mem, dest, frame, len) ==
    IF len < Len(aq_header) + Len(aq_footer) + 1
    THEN [ret |-> "EINVAL", len |-> 0, mem |-> mem]
    ELSE IF Bytes(mem, frame + len - Len(aq_footer), 2) # aq_footer
    THEN [ret |-> "EINVAL", len |-> 0, mem |-> mem]
    ELSE IF Bytes(mem, frame, 2) # aq_header
    THEN [ret |-> "EINVAL", len |-> 0, mem |-> mem]
    ELSE Let(aqualink_unpack(mem, dest, frame + Len(aq_header),
                             len - Len(aq_footer) - Len(aq_header)),
             LAMBDA u :
                 LET raw_sum == u.mem[dest + u.len - 1]
                     calculated_sum ==
                         (mod256_sum(Bytes(u.mem, dest, u.len - 1))
                          + mod256_sum(aq_header)) % 256
                 IN  IF calculated_sum # raw_sum
                     THEN [ret |-> "EPROTO", len |-> 0, mem |-> u.mem]
                     ELSE [ret |-> "ok", len |-> u.len - 1, mem |-> u.mem])

\* aqualink_frame_to_msg of the sequence f into a destination disjoint from
\* it: the returned status and the message
ParseDisjoint(f) ==
    Let(f \o Zeros(Len(f)),
        LAMBDA mem :
            Let(aqualink_frame_to_msg(mem, Len(f) + 1, 1, Len(f)),
                LAMBDA r :
                    [ret |-> r.ret,
                     msg |-> IF r.ret = "ok"
                             THEN Bytes(r.mem, Len(f) + 1, r.len) ELSE <<>>]))

\* ------------------------------------------------------------------------
\* Timers (struct uloop_timeout) and the slave table
\* ------------------------------------------------------------------------

\* ARRAY_SIZE(ctx->slaves)
NumSlaves == 10

\* a zero-initialised struct uloop_timeout; ms is the delay a pending timer
\* was set to (0 while it is not pending)
Timer0 == [pending |-> FALSE, cb |-> "NULL", ms |-> 0]

uloop_timeout_set(t, msecs) == [t EXCEPT !.pending = TRUE, !.ms = msecs]

uloop_timeout_cancel(t) == [t EXCEPT !.pending = FALSE, !.ms = 0]

\* a zero-initialised struct device
Device0 == [addr |-> 0, connected |-> FALSE, ops |-> "NULL",
            data_expired |-> Timer0]

\* compare_dev_addr without the test for an empty slot: the plain difference
\* of the two addresses
compare_addr_only(first, second) == first.addr - second.addr

\* compare_dev_addr(key, second): an empty slot compares above every key
compare_dev_addr(first, second) ==
    IF second.addr = 0 THEN -1 ELSE first.addr - second.addr

RECURSIVE Bsearch(_, _, _, _)
\* bsearch(key, base, nmemb, size, compare_dev_addr) over the slots l+1 .. u
\* (0-based l .. u-1): the index found, or NULL
Bsearch(key, base, l, u) ==
    IF ~(l < u) THEN NULL
    ELSE LET idx == (l + u) \div 2
             cmp == compare_dev_addr(key, base[idx + 1])
         IN  IF cmp < 0 THEN Bsearch(key, base, l, idx)
             ELSE IF cmp > 0 THEN Bsearch(key, base, idx + 1, u)
             ELSE idx + 1

\* lookup_slave: the slot (1..NumSlaves) holding dev_addr, or NULL
lookup_slave(c, dev_addr) ==
    Bsearch([addr |-> dev_addr], c.slaves, 0, NumSlaves)

\* the first 0-based index in 0..NumSlaves-1 whose slot satisfies P, else
\* NumSlaves (the value a for loop with a break ends with)
FirstIndex(P(_)) ==
    LET S == {i \in 0..(NumSlaves - 1) : P(i)}
    IN  IF S = {} THEN NumSlaves ELSE Min(S)

\* add_slave with the insertion point found by address alone, so that a new
\* address below an occupied one is never inserted before it
add_slave_append(c, addr, ops) ==
    LET last == FirstIndex(LAMBDA k : c.slaves[k + 1].addr = 0)
    IN  IF lookup_slave(c, addr) # NULL THEN [ret |-> "EEXIST", ctx |-> c]
        ELSE IF last >= NumSlaves THEN [ret |-> "ENOMEM", ctx |-> c]
        ELSE [ret |-> "ok",
              ctx |-> [c EXCEPT !.slaves[last + 1].addr = addr,
                                !.slaves[last + 1].ops = ops]]

\* add_slave without the lookup of the address: an address that is present
\* is inserted once more
add_slave_no_lookup(c, addr, ops) ==
    LET i == FirstIndex(LAMBDA k : c.slaves[k + 1].addr = 0
                                   \/ c.slaves[k + 1].addr > addr)
        last == FirstIndex(LAMBDA k : c.slaves[k + 1].addr = 0)
        moved == [k \in 1..NumSlaves |->
                    IF last > i /\ k - 1 >= i + 1 /\ k - 1 <= last
                    THEN c.slaves[k - 1] ELSE c.slaves[k]]
    IN  IF i >= NumSlaves \/ last >= NumSlaves
        THEN [ret |-> "ENOMEM", ctx |-> c]
        ELSE [ret |-> "ok",
              ctx |-> [c EXCEPT !.slaves =
                          [moved EXCEPT ![i + 1].addr = addr,
                                        ![i + 1].ops = ops]]]

\* add_slave(ctx, addr, ops): the returned status and the context afterwards
add_slave(c, addr, ops) ==
    LET dev == lookup_slave(c, addr)
        i == FirstIndex(LAMBDA k : c.slaves[k + 1].addr = 0
                                   \/ c.slaves[k + 1].addr > addr)
        last == FirstIndex(LAMBDA k : c.slaves[k + 1].addr = 0)
        \* memmove(ctx->slaves + i + 1, ctx->slaves + i, last - i)
        moved == [k \in 1..NumSlaves |->
                    IF last > i /\ k - 1 >= i + 1 /\ k - 1 <= last
                    THEN c.slaves[k - 1] ELSE c.slaves[k]]
    IN  IF dev # NULL THEN [ret |-> "EEXIST", ctx |-> c]
        ELSE IF i >= NumSlaves \/ last >= NumSlaves
        THEN [ret |-> "ENOMEM", ctx |-> c]
        ELSE [ret |-> "ok",
              ctx |-> [c EXCEPT !.slaves =
                          [moved EXCEPT ![i + 1].addr = addr,
                                        ![i + 1].ops = ops]]]

\* struct aqua_ctx as main initialises it, before any add_slave
Ctx0 ==
    [slaves |-> [k \in 1..NumSlaves |-> Device0],
     pending_frames |-> <<>>,
     probe_again |-> [Timer0 EXCEPT !.cb = "probe_bus"],
     device_work |-> [Timer0 EXCEPT !.cb = "handle_connected_devices"],
     interframe_gap |-> Timer0,
     rs485_timeout |-> Timer0,
     stream |-> [r |-> <<>>, w |-> <<>>]]

\* what the last handler did: op its name, ret the status of the call it
\* made (add_slave, aqualink_handle_frame), slave the slot the reply was
\* attributed to (NULL: none), handled whether a handler of a slave was
\* called (handle_reply by rs485_notify_read, get_next_request by
\* handle_connected_devices), scanned whether a complete frame was handed to
\* aqualink_handle_frame
Ev(op, ret, slave, handled, scanned) ==
    [op |-> op, ret |-> ret, slave |-> slave, handled |-> handled,
     scanned |-> scanned]

Ev0 == Ev("none", "ok", NULL, FALSE, FALSE)

CodecIdle ==
    /\ c_msg = <<>>
    /\ c_pack = <<>>
    /\ c_unpack = <<>>
    /\ c_frame = <<>>
    /\ c_parse = <<>>
    /\ c_flip = <<>>
    /\ c_inplace = <<>>

ProgIdle ==
    /\ pc = "startup"
    /\ ctx = Ctx0
    /\ next_id = 1
    /\ zero_calls = 0
    /\ ev = Ev0

\* ------------------------------------------------------------------------
\* Slave handlers (struct device_ops)
\* ------------------------------------------------------------------------

AQUA_PROBE_REQUEST == 0

AQUA_PROBE_RESPONSE == 1

JXI_COMMAND_REPLY == 13

JXI_GET_MEASUREMENTS == 37

\* jxi_handle_reply: the returned status (the properties it logs are not
\* part of the engine)
jxi_handle_reply(reply) ==
    LET cmd == reply[2]
    IN  IF cmd = JXI_COMMAND_REPLY
        THEN (IF Len(reply) < 5 THEN "ENODATA" ELSE "ok")
        ELSE IF cmd = JXI_GET_MEASUREMENTS
        THEN (IF Len(reply) < 9 THEN "ENODATA" ELSE "ok")
        ELSE "EBADRQC"

\* panel_handle_reply
panel_handle_reply(reply) ==
    LET cmd == reply[2]
    IN  IF cmd = 1 THEN (IF Len(reply) < 4 THEN "ENODATA" ELSE "ok")
        ELSE "EBADRQC"

\* slave->ops->handle_reply(slave, reply, len)
handle_reply(ops, reply) ==
    IF ops = "rs_panel_ops" THEN panel_handle_reply(reply)
    ELSE jxi_handle_reply(reply)

\* what ops->get_next_request may leave in msg_buf: the message, or <<>> for
\* a negative return.  jxi_get_next_request always asks for measurements;
\* panel_get_next_request sends the LED state or fails with -E2BIG.
get_next_request(ops, addr) ==
    IF ops = "rs_panel_ops" THEN {<<addr, 2, 0, 0, 0, 1, 254>>, <<>>}
    ELSE {<<104, JXI_GET_MEASUREMENTS>>}

\* ------------------------------------------------------------------------
\* The transmit queue
\* ------------------------------------------------------------------------

\* rs485_send_frame that writes although the interframe gap is pending
send_frame_ignoring_gap(c, frame) ==
    [c EXCEPT !.rs485_timeout =
                  uloop_timeout_set([@ EXCEPT !.cb = "rs485_no_response"], 200),
              !.stream.w = Append(@, frame.id)]

\* rs485_send_frame that returns -EAGAIN during the interframe gap without
\* installing the callback of the gap
send_frame_forgets_callback(c, frame) ==
    IF c.interframe_gap.pending
    THEN c
    ELSE [c EXCEPT !.rs485_timeout =
                       uloop_timeout_set([@ EXCEPT !.cb = "rs485_no_response"],
                                         200),
                   !.stream.w = Append(@, frame.id)]

\* rs485_send_frame that writes the frame and leaves rs485_timeout alone
send_frame_without_timeout(c, frame) ==
    IF c.interframe_gap.pending
    THEN [c EXCEPT !.interframe_gap.cb = "rs485_send_after_interframe_gap"]
    ELSE [c EXCEPT !.stream.w = Append(@, frame.id)]

\* rs485_send_frame: waits for the interframe gap, or arms the response
\* timeout and writes the frame to the stream
rs485_send_frame(c, frame) ==
    IF c.interframe_gap.pending
    THEN [c EXCEPT !.interframe_gap.cb = "rs485_send_after_interframe_gap"]
    ELSE [c EXCEPT !.rs485_timeout =
                       uloop_timeout_set([@ EXCEPT !.cb = "rs485_no_response"],
                                         200),
                   !.stream.w = Append(@, frame.id)]

rs485_send_next_frame(c) ==
    IF c.pending_frames = <<>> THEN c
    ELSE rs485_send_frame(c, Head(c.pending_frames))

\* rs485_queue_frame that sends the new frame whether or not the queue was
\* empty
queue_frame_send_always(c, buf, id) ==
    LET frame == [buf |-> buf, id |-> id]
    IN  IF Len(buf) > 32 THEN c
        ELSE rs485_send_frame([c EXCEPT !.pending_frames = Append(@, frame)],
                              frame)

\* rs485_queue_frame that puts the new frame at the front of the list
queue_frame_at_head(c, buf, id) ==
    LET frame == [buf |-> buf, id |-> id]
    IN  IF Len(buf) > 32 THEN c
        ELSE IF c.pending_frames = <<>>
        THEN rs485_send_frame([c EXCEPT !.pending_frames = <<frame>> \o @],
                              frame)
        ELSE [c EXCEPT !.pending_frames = <<frame>> \o @]

\* rs485_queue_frame without the test of the length against the record
queue_frame_any_size(c, buf, id) ==
    LET queue_is_empty == (c.pending_frames = <<>>)
        frame == [buf |-> buf, id |-> id]
    IN  IF queue_is_empty
        THEN rs485_send_frame([c EXCEPT !.pending_frames = Append(@, frame)],
                              frame)
        ELSE [c EXCEPT !.pending_frames = Append(@, frame)]

\* rs485_queue_frame(ctx, buf, len); id is the frame's serial number.
\* (malloc is taken to succeed.)
rs485_queue_frame(c, buf, id) ==
    LET queue_is_empty == (c.pending_frames = <<>>)
        frame == [buf |-> buf, id |-> id]
    IN  IF Len(buf) > 32 THEN c
        ELSE IF queue_is_empty
        THEN rs485_send_frame([c EXCEPT !.pending_frames = Append(@, frame)],
                              frame)
        ELSE [c EXCEPT !.pending_frames = Append(@, frame)]

\* rs485_no_response without the transmission of the next frame
no_response_without_send(c) ==
    [c EXCEPT !.pending_frames = Tail(@)]

\* rs485_no_response that also marks the slave of the silent request as
\* disconnected
no_response_disconnects(c) ==
    Let(lookup_slave(c, Head(c.pending_frames).buf[3]),
        LAMBDA slave :
            rs485_send_next_frame(
                [c EXCEPT !.pending_frames = Tail(@),
                          !.slaves = IF slave = NULL THEN @
                                     ELSE [@ EXCEPT ![slave].connected =
                                                        FALSE]]))

\* rs485_no_response that arms the interframe gap before the next frame, as
\* the end of a reply does
no_response_with_gap(c) ==
    rs485_send_next_frame([c EXCEPT !.pending_frames = Tail(@),
                                    !.interframe_gap =
                                        uloop_timeout_set(@, 4)])

\* rs485_no_response, the callback of rs485_timeout: drop the head, send the
\* next frame
rs485_no_response(c) ==
    rs485_send_next_frame([c EXCEPT !.pending_frames = Tail(@)])

\* rs485_send_after_interframe_gap, the callback of interframe_gap
rs485_send_after_interframe_gap(c) == rs485_send_next_frame(c)

\* ------------------------------------------------------------------------
\* Receiving
\* ------------------------------------------------------------------------

\* dev_clear_okay that only logs the loss: connected stays set
clear_okay_keeps_connected(dev) == dev

\* dev_clear_okay, the callback of a slave's data_expired
dev_clear_okay(dev) == [dev EXCEPT !.connected = FALSE]

\* aqualink_handle_msg that re-arms data_expired only for a probe response
handle_msg_arm_on_probe_only(c, dev_addr, reply) ==
    Let(lookup_slave(c, dev_addr),
        LAMBDA slave :
            IF Len(reply) < 2
            THEN [ctx |-> c, ret |-> "ENODATA", slave |-> NULL,
                  handled |-> FALSE]
            ELSE IF slave = NULL
            THEN [ctx |-> c, ret |-> "ENODEV", slave |-> NULL,
                  handled |-> FALSE]
            ELSE IF reply[2] = AQUA_PROBE_RESPONSE
            THEN [ctx |-> [c EXCEPT !.slaves[slave].connected = TRUE,
                                    !.slaves[slave].data_expired =
                                        uloop_timeout_set(
                                            [@ EXCEPT !.cb = "dev_clear_okay"],
                                            2 * 1000)],
                  ret |-> "ok", slave |-> slave, handled |-> FALSE]
            ELSE [ctx |-> c,
                  ret |-> handle_reply(c.slaves[slave].ops, reply),
                  slave |-> slave, handled |-> TRUE])

\* aqualink_handle_msg that takes every reply as a sign of life: connected
\* is set whatever the opcode
handle_msg_connects_always(c, dev_addr, reply) ==
    Let(lookup_slave(c, dev_addr),
        LAMBDA slave :
            IF Len(reply) < 2
            THEN [ctx |-> c, ret |-> "ENODATA", slave |-> NULL,
                  handled |-> FALSE]
            ELSE IF slave = NULL
            THEN [ctx |-> c, ret |-> "ENODEV", slave |-> NULL,
                  handled |-> FALSE]
            ELSE IF reply[2] = AQUA_PROBE_RESPONSE
            THEN [ctx |-> [c EXCEPT !.slaves[slave].connected = TRUE,
                                    !.slaves[slave].data_expired =
                                        uloop_timeout_set(
                                            [@ EXCEPT !.cb = "dev_clear_okay"],
                                            2 * 1000)],
                  ret |-> "ok", slave |-> slave, handled |-> FALSE]
            ELSE [ctx |-> [c EXCEPT !.slaves[slave].connected = TRUE,
                                    !.slaves[slave].data_expired =
                                        uloop_timeout_set(@, 2 * 1000)],
                  ret |-> handle_reply(c.slaves[slave].ops, reply),
                  slave |-> slave, handled |-> TRUE])

\* aqualink_handle_msg(ctx, request, reply, len); dev_addr is request->buf[2].
\* The result: the context afterwards, the returned status, the slot the
\* reply was attributed to and whether its handle_reply was called.
aqualink_handle_msg(c, dev_addr, reply) ==
    Let(lookup_slave(c, dev_addr),
        LAMBDA slave :
            IF Len(reply) < 2
            THEN [ctx |-> c, ret |-> "ENODATA", slave |-> NULL,
                  handled |-> FALSE]
            ELSE IF slave = NULL
            THEN [ctx |-> c, ret |-> "ENODEV", slave |-> NULL,
                  handled |-> FALSE]
            ELSE IF reply[2] = AQUA_PROBE_RESPONSE
            THEN [ctx |-> [c EXCEPT !.slaves[slave].connected = TRUE,
                                    !.slaves[slave].data_expired =
                                        uloop_timeout_set(
                                            [@ EXCEPT !.cb = "dev_clear_okay"],
                                            2 * 1000)],
                  ret |-> "ok", slave |-> slave, handled |-> FALSE]
            ELSE [ctx |-> [c EXCEPT !.slaves[slave].data_expired =
                                        uloop_timeout_set(@, 2 * 1000)],
                  ret |-> handle_reply(c.slaves[slave].ops, reply),
                  slave |-> slave, handled |-> TRUE])

\* aqualink_handle_frame(ctx, frame, len), given the result parsed of
\* aqualink_frame_to_msg.  With an empty list, list_first_entry yields a
\* pointer into ctx itself and request->buf[2] is a byte that belongs to no
\* frame: stray is the value that read produces.
aqualink_handle_frame(c, parsed, stray) ==
    IF parsed.ret # "ok"
    THEN [ctx |-> c, ret |-> parsed.ret, slave |-> NULL, handled |-> FALSE]
    ELSE aqualink_handle_msg(c,
                             IF c.pending_frames = <<>> THEN stray
                             ELSE Head(c.pending_frames).buf[3],
                             parsed.msg)

\* memfind of the engine (no length check; len >= 1 whenever it is called)
memfind(mem, buf, len, needle) == MemFindLoop(mem, buf, len, needle)

\* ustream_consume(s, n) on the read buffer
ustream_consume(c, n) ==
    [c EXCEPT !.stream.r = SubSeq(@, n + 1, Len(@))]

\* aqualink_frame_to_msg(buf, frame, len) as aqualink_handle_frame calls it:
\* the destination is its own 32-byte buffer
ParseReceived(f) ==
    Let(f \o Zeros(32),
        LAMBDA mem :
            Let(aqualink_frame_to_msg(mem, Len(f) + 1, 1, Len(f)),
                LAMBDA r :
                    [ret |-> r.ret,
                     msg |-> IF r.ret = "ok"
                             THEN Bytes(r.mem, Len(f) + 1, r.len) ELSE <<>>]))

\* rs485_notify_read that leaves the transaction as it is when
\* aqualink_handle_frame returns an error
handle_received_keep_on_error(c, start, end, stray, wild) ==
    LET frame_len == (end - start) + Len(aq_footer)
    IN  Let(IF frame_len < 0 THEN wild
            ELSE ParseReceived(SubSeq(c.stream.r, start,
                                      start + frame_len - 1)),
            LAMBDA parsed :
        Let(aqualink_handle_frame(c, parsed, stray),
            LAMBDA r :
                IF c.pending_frames = <<>> \/ r.ret # "ok"
                THEN [ctx |-> ustream_consume(r.ctx,
                                              (end - 1) + Len(aq_footer)),
                      ev |-> Ev("rs485_notify_read", r.ret, r.slave,
                                r.handled, TRUE)]
                ELSE [ctx |-> rs485_send_next_frame(
                                  ustream_consume(
                                      [r.ctx EXCEPT
                                          !.pending_frames = Tail(@),
                                          !.rs485_timeout =
                                              uloop_timeout_cancel(@),
                                          !.interframe_gap =
                                              uloop_timeout_set(@, 4)],
                                      (end - 1) + Len(aq_footer))),
                      ev |-> Ev("rs485_notify_read", r.ret, r.slave,
                                r.handled, TRUE)]))

\* rs485_notify_read from the call of aqualink_handle_frame on, for the
\* header found at start and the footer found at end
HandleReceived(c, start, end, stray, wild) ==
    LET frame_len == (end - start) + Len(aq_footer)
    IN  Let(IF frame_len < 0 THEN wild
            ELSE ParseReceived(SubSeq(c.stream.r, start,
                                      start + frame_len - 1)),
            LAMBDA parsed :
        Let(aqualink_handle_frame(c, parsed, stray),
            LAMBDA r :
                IF c.pending_frames = <<>>
                THEN [ctx |-> r.ctx,
                      ev |-> Ev("rs485_notify_read", r.ret, r.slave,
                                r.handled, TRUE)]
                ELSE [ctx |-> rs485_send_next_frame(
                                  ustream_consume(
                                      [r.ctx EXCEPT
                                          !.pending_frames = Tail(@),
                                          !.rs485_timeout =
                                              uloop_timeout_cancel(@),
                                          !.interframe_gap =
                                              uloop_timeout_set(@, 4)],
                                      (end - 1) + Len(aq_footer))),
                      ev |-> Ev("rs485_notify_read", r.ret, r.slave,
                                r.handled, TRUE)]))

\* rs485_notify_read, the read callback of the stream, run on the read
\* buffer c.stream.r.  When the footer found lies before the header,
\* frame_len is negative and aqualink_frame_to_msg is handed a length near
\* SIZE_MAX: what it returns then is wild (one of WildParse).
rs485_notify_read(c, stray, wild) ==
    Let(memfind(c.stream.r, 1, Len(c.stream.r), aq_header),
        LAMBDA start :
            IF start = NULL
            THEN [ctx |-> c,
                  ev |-> Ev("rs485_notify_read", "ok", NULL, FALSE, FALSE)]
            ELSE Let(memfind(c.stream.r, 1, Len(c.stream.r) - (start - 1),
                             aq_footer),
                     LAMBDA end :
                         IF end = NULL
                         THEN [ctx |-> ustream_consume(c, start - 1),
                               ev |-> Ev("rs485_notify_read", "ok", NULL,
                                         FALSE, FALSE)]
                         ELSE HandleReceived(c, start, end, stray, wild)))

\* ------------------------------------------------------------------------
\* The schedulers
\* ------------------------------------------------------------------------

RECURSIVE ProbeLoop(_, _, _)
\* the for loop of probe_bus from 0-based index i on; id is the serial number
\* of the next frame.  The result is the context and the next serial number.
ProbeLoop(c, i, id) ==
    IF i >= NumSlaves THEN [ctx |-> c, id |-> id]
    ELSE LET dev == c.slaves[i + 1]
         IN  IF dev.connected THEN ProbeLoop(c, i + 1, id)
             ELSE IF dev.addr = 0 THEN [ctx |-> c, id |-> id]
             ELSE Let(rs485_queue_frame(
                          c, aqualink_msg_to_frame(<<dev.addr,
                                                     AQUA_PROBE_REQUEST>>), id),
                      LAMBDA c1 : ProbeLoop(c1, i + 1, id + 1))

\* probe_bus that probes every occupied slot, connected or not
probe_bus_all(c, id) ==
    Let(ProbeLoop([c EXCEPT !.slaves =
                       [k \in 1..NumSlaves |->
                           [c.slaves[k] EXCEPT !.connected = FALSE]]], 0, id),
        LAMBDA r :
            [ctx |-> [r.ctx EXCEPT !.slaves = c.slaves,
                                   !.probe_again =
                                       uloop_timeout_set(@, 2 * 1000)],
             id |-> r.id])

\* probe_bus, the callback of probe_again
probe_bus(c, id) ==
    Let(ProbeLoop(c, 0, id),
        LAMBDA r :
            [ctx |-> [r.ctx EXCEPT !.probe_again =
                                       uloop_timeout_set(@, 2 * 1000)],
             id |-> r.id])

RECURSIVE WorkLoop(_, _, _, _)
\* the for loop of handle_connected_devices from 0-based index i on, with
\* handsome_dev inlined; declined are the slots whose get_next_request
\* returns a negative value this time.  polled tells whether a
\* get_next_request was called.
WorkLoop(c, i, id, declined) ==
    IF i >= NumSlaves THEN [ctx |-> c, id |-> id, polled |-> FALSE]
    ELSE LET dev == c.slaves[i + 1]
             msg_buf == CHOOSE m \in get_next_request(dev.ops, dev.addr) :
                            m # <<>>
         IN  IF dev.addr = 0 THEN [ctx |-> c, id |-> id, polled |-> FALSE]
             ELSE IF (i + 1) \in declined
             THEN [WorkLoop(c, i + 1, id, declined) EXCEPT !.polled = TRUE]
             ELSE Let(rs485_queue_frame(
                          c, aqualink_msg_to_frame(
                                 [msg_buf EXCEPT ![1] = dev.addr]), id),
                      LAMBDA c1 :
                          [WorkLoop(c1, i + 1, id + 1, declined)
                               EXCEPT !.polled = TRUE])

\* handle_connected_devices that runs its loop although frames are pending
work_without_backoff(c, id, declined) ==
    Let(WorkLoop(c, 0, id, declined),
        LAMBDA r :
            [ctx |-> [r.ctx EXCEPT !.device_work =
                                       uloop_timeout_set(@, 500)],
             id |-> r.id, polled |-> r.polled])

\* handle_connected_devices, the callback of device_work
handle_connected_devices(c, id, declined) ==
    IF c.pending_frames # <<>>
    THEN [ctx |-> [c EXCEPT !.device_work = uloop_timeout_set(@, 100)],
          id |-> id, polled |-> FALSE]
    ELSE Let(WorkLoop(c, 0, id, declined),
             LAMBDA r :
                 [ctx |-> [r.ctx EXCEPT !.device_work =
                                            uloop_timeout_set(@, 500)],
                  id |-> r.id, polled |-> r.polled])

\* the slots whose get_next_request can return a negative value
CanDecline(c) ==
    {k \in 1..NumSlaves :
        c.slaves[k].addr # 0
        /\ <<>> \in get_next_request(c.slaves[k].ops, c.slaves[k].addr)}

\* ------------------------------------------------------------------------
\* The program: main, then the event loop
\* ------------------------------------------------------------------------

\* the slaves main may register: the heater, which it always registers, and
\* a panel, as a build with a second device does
StartupSlaves == {<<104, "jxi_heater_ops">>, <<51, "rs_panel_ops">>}

\* the values the stray read of aqualink_handle_frame is followed for: no
\* address, and the addresses that can be registered
StrayBytes == {0} \cup {sl[1] : sl \in StartupSlaves}

\* request->buf[2] with an empty list is the third byte of
\* ctx->slaves[0].data_expired.list.next: zero while that timer is not in
\* uloop's list, a byte of an address while it is
StrayRead(c) ==
    IF c.pending_frames = <<>> /\ c.slaves[1].data_expired.pending
    THEN StrayBytes ELSE {0}

\* the results a parse with a wild length is followed for
WildParse == {[ret |-> "EPROTO", msg |-> <<>>],
              [ret |-> "ok", msg |-> <<0, 1>>],
              [ret |-> "crash", msg |-> <<>>]}

\* the byte chunks the line delivers: a probe response, a control response
\* the heater's handler accepts, a measurement reply it rejects as too short,
\* a frame with a wrong checksum, a frame too short to parse, a frame with a
\* payload of one byte, and a stray footer
RxChunks ==
    {aqualink_msg_to_frame(<<0, AQUA_PROBE_RESPONSE>>),
     aqualink_msg_to_frame(<<0, JXI_COMMAND_REPLY, 0, 0, 0>>),
     aqualink_msg_to_frame(<<0, JXI_GET_MEASUREMENTS>>),
     <<16, 2, 0, 1, 255, 16, 3>>,
     <<16, 2, 16, 3>>,
     <<16, 2, 0, 18, 16, 3>>,
     <<16, 3>>}

Init == CodecIdle /\ ProgIdle

\* main: ret = add_slave(...); if (ret) return EXIT_FAILURE
MainAddSlave(addr, ops) ==
    /\ pc = "startup"
    /\ \E r \in {add_slave(ctx, addr, ops)} :
        /\ ctx' = r.ctx
        /\ pc' = IF r.ret = "ok" THEN "startup" ELSE "exited"
        /\ ev' = Ev("add_slave", r.ret, NULL, FALSE, FALSE)
    /\ UNCHANGED <<next_id, zero_calls>>
    /\ UNCHANGED codec_vars

\* main: with the heater registered, arm the two schedulers and enter
\* uloop_run
MainRun ==
    /\ pc = "startup"
    /\ lookup_slave(ctx, 104) # NULL
    /\ pc' = "running"
    /\ ctx' = [ctx EXCEPT !.probe_again = uloop_timeout_set(@, 1000),
                          !.device_work = uloop_timeout_set(@, 1200)]
    /\ ev' = Ev("uloop_run", "ok", NULL, FALSE, FALSE)
    /\ UNCHANGED <<next_id, zero_calls>>
    /\ UNCHANGED codec_vars

\* probe_again fires
ProbeTick ==
    /\ pc = "running"
    /\ ctx.probe_again.pending
    /\ \E r \in {probe_bus([ctx EXCEPT !.probe_again =
                                           uloop_timeout_cancel(@)],
                           next_id)} :
        /\ r.id <= MaxEnqueued + 1
        /\ ctx' = r.ctx
        /\ next_id' = r.id
    /\ ev' = Ev("probe_bus", "ok", NULL, FALSE, FALSE)
    /\ UNCHANGED <<pc, zero_calls>>
    /\ UNCHANGED codec_vars

\* device_work fires
WorkTick ==
    /\ pc = "running"
    /\ ctx.device_work.pending
    /\ \E declined \in SUBSET CanDecline(ctx) :
       \E r \in {handle_connected_devices(
                     [ctx EXCEPT !.device_work = uloop_timeout_cancel(@)],
                     next_id, declined)} :
        /\ r.id <= MaxEnqueued + 1
        /\ ctx' = r.ctx
        /\ next_id' = r.id
        /\ ev' = Ev("handle_connected_devices", "ok", NULL, r.polled, FALSE)
    /\ UNCHANGED <<pc, zero_calls>>
    /\ UNCHANGED codec_vars

\* rs485_timeout fires: uloop cancels it and calls rs485_no_response
ResponseTimeout ==
    /\ pc = "running"
    /\ ctx.rs485_timeout.pending
    /\ ctx' = rs485_no_response(
                  [ctx EXCEPT !.rs485_timeout = uloop_timeout_cancel(@)])
    /\ ev' = Ev("rs485_no_response", "ok", NULL, FALSE, FALSE)
    /\ UNCHANGED <<pc, next_id, zero_calls>>
    /\ UNCHANGED codec_vars

\* interframe_gap fires: uloop cancels it and calls its callback, if set
GapElapsed ==
    /\ pc = "running"
    /\ ctx.interframe_gap.pending
    /\ \E c \in {[ctx EXCEPT !.interframe_gap = uloop_timeout_cancel(@)]} :
        ctx' = IF c.interframe_gap.cb = "NULL" THEN c
               ELSE rs485_send_after_interframe_gap(c)
    /\ ev' = Ev("interframe_gap", "ok", NULL, FALSE, FALSE)
    /\ UNCHANGED <<pc, next_id, zero_calls>>
    /\ UNCHANGED codec_vars

\* the data_expired timer of slot k fires: uloop cancels it and calls its
\* callback, if set
DataExpired(k) ==
    /\ pc = "running"
    /\ ctx.slaves[k].data_expired.pending
    /\ \E dev \in {[ctx.slaves[k] EXCEPT
                       !.data_expired = uloop_timeout_cancel(@)]} :
        ctx' = [ctx EXCEPT !.slaves[k] =
                   IF dev.data_expired.cb = "NULL" THEN dev
                   ELSE dev_clear_okay(dev)]
    /\ ev' = Ev("data_expired", "ok", NULL, FALSE, FALSE)
    /\ UNCHANGED <<pc, next_id, zero_calls>>
    /\ UNCHANGED codec_vars

\* the footer rs485_notify_read finds lies before the header it found
FooterBeforeHeader(c) ==
    Let(memfind(c.stream.r, 1, Len(c.stream.r), aq_header),
        LAMBDA start :
            /\ start # NULL
            /\ Let(memfind(c.stream.r, 1, Len(c.stream.r) - (start - 1),
                           aq_footer),
                   LAMBDA end :
                       end # NULL /\ (end - start) + Len(aq_footer) < 0))

\* bytes arrive on the line: the stream appends them to its read buffer and
\* calls rs485_notify_read.  The stray read and the wild parse are choices
\* only where the handler makes them.
FrameArrival(chunk) ==
    /\ pc = "running"
    /\ Len(ctx.stream.r) + Len(chunk) <= MaxRxLen
    /\ \E c \in {[ctx EXCEPT !.stream.r = @ \o chunk]} :
       \E stray \in StrayRead(c),
          wild \in IF FooterBeforeHeader(c) THEN WildParse
                   ELSE {[ret |-> "EPROTO", msg |-> <<>>]} :
       \E r \in {rs485_notify_read(c, stray, wild)} :
        /\ IF r.ev.ret = "crash"
           THEN /\ pc' = "crashed"
                /\ ctx' = c
           ELSE /\ pc' = pc
                /\ ctx' = r.ctx
        /\ ev' = r.ev
    /\ UNCHANGED <<next_id, zero_calls>>
    /\ UNCHANGED codec_vars

Next ==
    \/ \E sl \in StartupSlaves : MainAddSlave(sl[1], sl[2])
    \/ MainRun
    \/ ProbeTick
    \/ WorkTick
    \/ ResponseTimeout
    \/ GapElapsed
    \/ \E k \in 1..NumSlaves : DataExpired(k)
    \/ \E chunk \in RxChunks : FrameArrival(chunk)

Spec == Init /\ [][Next]_vars

\* the program with an event loop that runs its timers: a pending
\* rs485_timeout or interframe_gap fires after its time
LiveSpec ==
    /\ Init
    /\ [][Next]_vars
    /\ WF_vars(ResponseTimeout)
    /\ WF_vars(GapElapsed)

\* ------------------------------------------------------------------------
\* The registry harness: any sequence of add_slave calls
\* ------------------------------------------------------------------------

RegOps == {"jxi_heater_ops"}

RegInit == CodecIdle /\ ProgIdle

RegAddSlave(addr, ops) ==
    /\ zero_calls < MaxZeroCalls
    /\ \E r \in {add_slave(ctx, addr, ops)} :
        /\ ctx' = r.ctx
        /\ ev' = Ev("add_slave", r.ret, NULL, FALSE, FALSE)
    /\ zero_calls' = IF zero_calls > 0 \/ addr = 0 THEN zero_calls + 1 ELSE 0
    /\ UNCHANGED <<pc, next_id>>
    /\ UNCHANGED codec_vars

RegNext == \E addr \in 0..MaxRegAddr, ops \in RegOps : RegAddSlave(addr, ops)

RegistrySpec == RegInit /\ [][RegNext]_vars

\* ------------------------------------------------------------------------
\* The late-registration harness: add_slave on a table that holds connected
\* slaves.  main calls add_slave before uloop_run only; here the function is
\* applied to the tables that replies to probes produce.
\* ------------------------------------------------------------------------

\* the addresses added and probed are 1 .. MaxLateAddr
MaxLateAddr == 4

LateOps == {"jxi_heater_ops", "rs_panel_ops"}

LateInit == CodecIdle /\ ProgIdle

\* add_slave(ctx, addr, ops)
LateAddSlave(addr, ops) ==
    /\ \E r \in {add_slave(ctx, addr, ops)} :
        /\ ctx' = r.ctx
        /\ ev' = Ev("add_slave", r.ret, NULL, FALSE, FALSE)
    /\ UNCHANGED <<pc, next_id, zero_calls>>
    /\ UNCHANGED codec_vars

\* aqualink_handle_msg with the reply <<0, AQUA_PROBE_RESPONSE>> to a probe
\* of addr: a registered slave becomes connected, its data_expired is armed
LateProbeReply(addr) ==
    /\ \E r \in {aqualink_handle_msg(ctx, addr,
                                      <<0, AQUA_PROBE_RESPONSE>>)} :
        /\ ctx' = r.ctx
        /\ ev' = Ev("aqualink_handle_msg", r.ret, r.slave, r.handled, FALSE)
    /\ UNCHANGED <<pc, next_id, zero_calls>>
    /\ UNCHANGED codec_vars

LateNext ==
    \/ \E addr \in 1..MaxLateAddr, ops \in LateOps : LateAddSlave(addr, ops)
    \/ \E addr \in 1..MaxLateAddr : LateProbeReply(addr)

LateSpec == LateInit /\ [][LateNext]_vars

\* ------------------------------------------------------------------------
\* The codec harness: draw an input, apply the codec functions to it
\* ------------------------------------------------------------------------

RECURSIVE SeqsUpTo(_, _)
\* all sequences over S of length at most n
SeqsUpTo(S, n) ==
    IF n = 0 THEN {<<>>}
    ELSE LET T == SeqsUpTo(S, n - 1)
         IN  T \cup {Append(t, b) : t \in {u \in T : Len(u) = n - 1}, b \in S}

CodecInit ==
    /\ c_msg \in SeqsUpTo(CodecBytes, MaxMsgLen)
    /\ c_pack = <<>>
    /\ c_unpack = <<>>
    /\ c_frame = <<>>
    /\ c_parse = <<>>
    /\ c_flip = <<>>
    /\ c_inplace = <<>>
    /\ ProgIdle

DoPack ==
    /\ c_pack = <<>>
    /\ c_pack' = <<aqualink_pack(c_msg)>>
    /\ UNCHANGED <<c_msg, c_unpack, c_frame, c_parse, c_flip, c_inplace>>
    /\ UNCHANGED prog_vars

DoUnpack ==
    /\ c_pack # <<>>
    /\ c_unpack = <<>>
    /\ c_unpack' = <<UnpackDisjoint(c_pack[1])>>
    /\ UNCHANGED <<c_msg, c_pack, c_frame, c_parse, c_flip, c_inplace>>
    /\ UNCHANGED prog_vars

DoMsgToFrame ==
    /\ c_frame = <<>>
    /\ c_frame' = <<aqualink_msg_to_frame(c_msg)>>
    /\ UNCHANGED <<c_msg, c_pack, c_unpack, c_parse, c_flip, c_inplace>>
    /\ UNCHANGED prog_vars

DoFrameToMsg ==
    /\ c_frame # <<>>
    /\ c_parse = <<>>
    /\ c_parse' = <<ParseDisjoint(c_frame[1])>>
    /\ UNCHANGED <<c_msg, c_pack, c_unpack, c_frame, c_flip, c_inplace>>
    /\ UNCHANGED prog_vars

RECURSIVE Pow2(_)
\* 2 to the power k
Pow2(k) == IF k = 0 THEN 1 ELSE 2 * Pow2(k - 1)

\* the byte b with bit k inverted
FlipBit(b, k) ==
    IF (b \div Pow2(k)) % 2 = 1 THEN b - Pow2(k) ELSE b + Pow2(k)

\* the positions of frame f between its delimiters
Inner(f) == 3..(Len(f) - 2)

\* aqualink_frame_to_msg of frame f with bit k of byte i inverted
ParseFlipped(f, i, k) == ParseDisjoint([f EXCEPT ![i] = FlipBit(@, k)])

\* parse c_frame with each single bit of each byte between the delimiters
\* inverted in turn; keep the changes that are not answered by an error
DoFlipBits ==
    /\ c_frame # <<>>
    /\ c_flip = <<>>
    /\ c_flip' = << {<<i, k>> \in Inner(c_frame[1]) \X (0..7) :
                       ParseFlipped(c_frame[1], i, k).ret = "ok"} >>
    /\ UNCHANGED <<c_msg, c_pack, c_unpack, c_frame, c_parse, c_inplace>>
    /\ UNCHANGED prog_vars

\* aqualink_unpack(s, s, len): dest is the source buffer
UnpackInPlace(s) ==
    Let(aqualink_unpack(s, 1, 1, Len(s)),
        LAMBDA r : Bytes(r.mem, 1, r.len))

\* aqualink_frame_to_msg(f, f, len): dest is the frame buffer
ParseInPlace(f) ==
    Let(aqualink_frame_to_msg(f, 1, 1, Len(f)),
        LAMBDA r :
            [ret |-> r.ret,
             msg |-> IF r.ret = "ok" THEN Bytes(r.mem, 1, r.len) ELSE <<>>])

\* the buffers handed to aqualink_unpack: arbitrary bytes, a packed message,
\* a whole frame (as the unescape test does)
UnpackInputs == {c_msg, c_pack[1], c_frame[1]}

\* the buffers handed to aqualink_frame_to_msg: a frame, and arbitrary bytes
\* between a header and a footer
ParseInputs == {c_frame[1], aq_header \o c_msg \o aq_footer}

\* unpack and parse each buffer twice, in place and into a disjoint dest
DoInPlace ==
    /\ c_pack # <<>>
    /\ c_frame # <<>>
    /\ c_inplace = <<>>
    /\ c_inplace' =
           << [unpack |-> {<<s, UnpackInPlace(s), UnpackDisjoint(s)>> :
                              s \in UnpackInputs},
               parse  |-> {<<f, ParseInPlace(f), ParseDisjoint(f)>> :
                              f \in ParseInputs}] >>
    /\ UNCHANGED <<c_msg, c_pack, c_unpack, c_frame, c_parse, c_flip>>
    /\ UNCHANGED prog_vars

CodecNext ==
    DoPack \/ DoUnpack \/ DoMsgToFrame \/ DoFrameToMsg \/ DoFlipBits \/ DoInPlace

CodecSpec == CodecInit /\ [][CodecNext]_vars

\* ------------------------------------------------------------------------
\* The framer and the pending-frame record on long payloads
\* ------------------------------------------------------------------------

\* n bytes b
Repeat(b, n) == [i \in 1..n |-> b]

\* the bytes that follow the escapes of a long payload
FillBytes == {0, 46, 238}

\* payloads of every length with every number of bytes to escape
SizePayloads ==
    UNION {{Repeat(ESC, k) \o Repeat(b, n - k) : k \in 0..n, b \in FillBytes} :
              n \in 0..MaxPayloadLen}

SizeInit ==
    /\ c_msg \in SizePayloads
    /\ c_pack = <<>>
    /\ c_unpack = <<>>
    /\ c_frame = <<>>
    /\ c_parse = <<>>
    /\ c_flip = <<>>
    /\ c_inplace = <<>>
    /\ ProgIdle

\* handsome_dev / probe_bus: the frame just built goes to rs485_queue_frame
SizeQueueFrame ==
    /\ c_frame # <<>>
    /\ ev.op = "none"
    /\ \E r \in {rs485_queue_frame(ctx, c_frame[1], next_id)} :
        /\ ctx' = r
        /\ ev' = Ev("rs485_queue_frame",
                    IF r.pending_frames = <<>> THEN "E2BIG" ELSE "ok",
                    NULL, FALSE, FALSE)
    /\ next_id' = next_id + 1
    /\ UNCHANGED <<pc, zero_calls>>
    /\ UNCHANGED codec_vars

SizeNext == DoMsgToFrame \/ SizeQueueFrame

SizeSpec == SizeInit /\ [][SizeNext]_vars

\* ------------------------------------------------------------------------
\* Properties of the codec (checked under CodecSpec)
\* ------------------------------------------------------------------------

RECURSIVE StuffEach(_)
\* the stuffed form, byte by byte: every 10 is followed by an inserted 00
StuffEach(s) ==
    IF s = <<>> THEN <<>>
    ELSE (IF Head(s) = 16 THEN <<16, 0>> ELSE <<Head(s)>>) \o StuffEach(Tail(s))

RECURSIVE SumOf(_)
SumOf(s) == IF s = <<>> THEN 0 ELSE Head(s) + SumOf(Tail(s))

\* the frame layout of the protocol document for payload P
FrameLayout(P) ==
    LET c == (16 + 2 + SumOf(P)) % 256
    IN  <<16, 2>> \o StuffEach(P) \o StuffEach(<<c>>) \o <<16, 3>>

\* C4: codec round-trip: for every payload P with len(P) >= 2,
\* aqualink_frame_to_msg of aqualink_msg_to_frame(P) succeeds and returns
\* exactly P.
C4_CodecRoundTrip ==
    (c_parse # <<>> /\ Len(c_msg) >= 2)
        => (c_parse[1].ret = "ok" /\ c_parse[1].msg = c_msg)

\* C5: stuffing round-trip: for every byte sequence S,
\* aqualink_unpack(aqualink_pack(S)) returns S.
C5_StuffingRoundTrip ==
    c_unpack # <<>> => c_unpack[1] = c_msg

\* C6: frame layout: aqualink_msg_to_frame(P) is 10 02, P with a 00 inserted
\* after each 10, the checksum (10 + 02 + sum of P) mod 256 followed by 00
\* when it is 10, then 10 03.
C6_FrameLayout ==
    c_frame # <<>> => c_frame[1] = FrameLayout(c_msg)

\* C6 witness: the documented example 68 25 00 -> 10 02 68 25 00 9f 10 03
C6_Witness ==
    /\ c_msg = <<104, 37, 0>>
    /\ c_frame = << <<16, 2, 104, 37, 0, 159, 16, 3>> >>

\* ------------------------------------------------------------------------
\* Properties of the registry (checked under RegistrySpec)
\* ------------------------------------------------------------------------

\* the occupied slots are a prefix with strictly ascending addresses, the
\* empty slots the suffix after it
Ordered(slaves) ==
    \E n \in 0..NumSlaves :
        /\ \A k \in 1..n : slaves[k].addr # 0
        /\ \A k \in (n + 1)..NumSlaves : slaves[k].addr = 0
        /\ \A k \in 1..(n - 1) : slaves[k].addr < slaves[k + 1].addr

\* C7 as stated: after any sequence of add_slave calls with any addresses the
\* occupied slots are an ascending prefix and the empty slots a suffix.
C7_AnyAddresses == Ordered(ctx.slaves)

\* C7: after any sequence of add_slave calls with non-zero addresses,
\* successful or failing, the occupied slots of the slave table are a prefix
\* with strictly ascending addresses and the empty slots a contiguous suffix.
C7_RegistryOrdering == zero_calls = 0 => Ordered(ctx.slaves)

\* C7 witness: a call on a full table, filled by calls with non-zero
\* addresses, has failed
C7_Witness ==
    /\ zero_calls = 0
    /\ ev.op = "add_slave"
    /\ ev.ret = "ENOMEM"
    /\ \A k \in 1..NumSlaves : ctx.slaves[k].addr # 0

\* ------------------------------------------------------------------------
\* Properties of the engine (checked under Spec)
\* ------------------------------------------------------------------------

Range(f) == {f[i] : i \in DOMAIN f}

\* the positions in the queue of the frames that have been written to the
\* TTY: written, and neither answered nor timed out
InFlight ==
    {i \in DOMAIN ctx.pending_frames :
        ctx.pending_frames[i].id \in Range(ctx.stream.w)}

\* the engine timers of a context
EngineTimers(c) ==
    <<c.probe_again, c.device_work, c.interframe_gap, c.rs485_timeout>>

\* C1: single-in-flight: in every reachable state at most one frame has been
\* written to the TTY and neither answered nor timed out, and no step writes
\* a frame while rs485_timeout is pending, other than the expiry of that
\* timer itself.
C1_SingleInFlight ==
    /\ [](Cardinality(InFlight) <= 1)
    /\ [][ctx'.stream.w # ctx.stream.w
              => (~ctx.rs485_timeout.pending
                      \/ (ev'.op = "rs485_no_response" /\ ResponseTimeout))]_vars

\* C1 witness: one frame is in flight with its deadline armed and another
\* waits behind it
C1_Witness ==
    /\ Len(ctx.pending_frames) >= 2
    /\ InFlight = {1}
    /\ ctx.rs485_timeout.pending

\* C2: when a complete frame arrives while the queue is empty, no slave's
\* connected flag or staleness timer changes, no reply is attributed to a
\* slave, no reply handler is called and no engine timer is armed or
\* cancelled.
C2_UnsolicitedDiscarded ==
    [][(/\ ev'.op = "rs485_notify_read"
        /\ ev'.scanned
        /\ ctx.pending_frames = <<>>
        /\ \E chunk \in RxChunks : FrameArrival(chunk))
           => (/\ ctx'.slaves = ctx.slaves
               /\ ev'.slave = NULL
               /\ ~ev'.handled
               /\ EngineTimers(ctx') = EngineTimers(ctx))]_vars

\* C3: frames are written to the TTY in the order they were enqueued: the
\* serial numbers written are strictly increasing.
C3_TransmitOrder ==
    \A i, j \in DOMAIN ctx.stream.w :
        i < j => ctx.stream.w[i] < ctx.stream.w[j]

\* C3 witness: two frames have been written, the second after the first timed
\* out or was answered
C3_Witness ==
    /\ ctx.stream.w = <<1, 2>>
    /\ ev.op \in {"rs485_no_response", "interframe_gap"}

Unconnected(c) ==
    {k \in 1..NumSlaves : c.slaves[k].addr # 0 /\ ~c.slaves[k].connected}

C10_ResponseTimeout ==
    [][(ev'.op = "rs485_no_response" /\ ResponseTimeout) =>
        /\ ctx'.pending_frames = Tail(ctx.pending_frames)
        /\ ctx'.pending_frames # <<>>
               => (/\ ctx'.stream.w = Append(ctx.stream.w,
                                             Head(ctx'.pending_frames).id)
                   /\ ctx'.rs485_timeout.pending
                   /\ ctx'.rs485_timeout.ms = 200
                   /\ ~ctx'.interframe_gap.pending)]_vars

\* C10 witness: the first frame timed out and the second was written with its
\* deadline armed
C10_Witness ==
    /\ ev.op = "rs485_no_response"
    /\ ctx.stream.w = <<1, 2>>
    /\ Len(ctx.pending_frames) = 1
    /\ Head(ctx.pending_frames).id = 2
    /\ ctx.rs485_timeout.pending
    /\ ctx.rs485_timeout.ms = 200

\* C11: a work tick with frames pending calls no get_next_request, enqueues
\* and writes nothing and re-arms device_work to 100 ms; a work tick with an
\* empty queue re-arms it to 500 ms.
C11_ContentionBackoff ==
    [][(ev'.op = "handle_connected_devices" /\ WorkTick) =>
        IF ctx.pending_frames # <<>>
        THEN /\ ~ev'.handled
             /\ ctx'.pending_frames = ctx.pending_frames
             /\ ctx'.stream.w = ctx.stream.w
             /\ next_id' = next_id
             /\ ctx'.device_work.pending
             /\ ctx'.device_work.ms = 100
        ELSE /\ ctx'.device_work.pending
             /\ ctx'.device_work.ms = 500]_vars

\* C11 witness: a work tick found a frame pending and backed off
C11_Witness ==
    /\ ev.op = "handle_connected_devices"
    /\ ~ev.handled
    /\ ctx.pending_frames # <<>>
    /\ ctx.device_work.ms = 100

\* the context in which rs485_notify_read runs when chunk arrives
Received(chunk) == [ctx EXCEPT !.stream.r = @ \o chunk]

C13_InterframeGap ==
    /\ [](ctx.interframe_gap.pending
             => (InFlight = {} /\ ~ctx.rs485_timeout.pending))
    /\ [][/\ (ctx.interframe_gap.pending /\ ctx'.stream.w # ctx.stream.w)
                 => ev'.op = "interframe_gap"
          /\ (/\ ev'.op = "interframe_gap"
              /\ GapElapsed
              /\ ctx.pending_frames # <<>>)
                 => (/\ ctx'.pending_frames = ctx.pending_frames
                     /\ ctx'.stream.w = Append(ctx.stream.w,
                                               Head(ctx.pending_frames).id)
                     /\ ctx'.rs485_timeout.pending
                     /\ ctx'.rs485_timeout.ms = 200)]_vars

\* C13 witness: the second frame waited for the gap that the reply to the
\* first armed, and the expiry of the gap has written it
C13_Witness ==
    /\ ev.op = "interframe_gap"
    /\ ctx.stream.w = <<1, 2>>
    /\ ctx.pending_frames # <<>>
    /\ Head(ctx.pending_frames).id = 2
    /\ ctx.rs485_timeout.pending
    /\ ~ctx.interframe_gap.pending

\* ------------------------------------------------------------------------
\* More properties of the codec (checked under CodecSpec)
\* ------------------------------------------------------------------------

DelimitersWithin(f) ==
    {i \in 3..(Len(f) - 3) : <<f[i], f[i + 1]>> \in {aq_header, aq_footer}}

\* C15: delimiter absence: for every payload of at least 2 bytes, the bytes
\* aqualink_msg_to_frame writes between the leading 10 02 and the trailing
\* 10 03 contain neither the byte pair 10 02 nor the byte pair 10 03.
C15_DelimiterAbsence ==
    (c_frame # <<>> /\ Len(c_msg) >= 2) => DelimitersWithin(c_frame[1]) = {}

\* a payload that itself contains a header or a footer has been framed
C15_Witness ==
    /\ c_frame # <<>>
    /\ Len(c_msg) >= 2
    /\ \E i \in 1..(Len(c_msg) - 1) :
           <<c_msg[i], c_msg[i + 1]>> \in {aq_header, aq_footer}

\* C16: in-place operation: for every buffer, aqualink_unpack with dest
\* equal to the source returns the same length and bytes as into a disjoint
\* destination, and aqualink_frame_to_msg with dest equal to the frame
\* returns the same status and payload as with a disjoint destination.
C16_InPlace ==
    c_inplace # <<>> =>
        /\ \A x \in c_inplace[1].unpack : x[2] = x[3]
        /\ \A x \in c_inplace[1].parse : x[2] = x[3]

\* a buffer with an escape pair followed by two different bytes was unpacked
\* in place (the bytes after the pair move down over their own old place),
\* and a frame with a stuffed byte was parsed in place
C16_Witness ==
    /\ c_inplace # <<>>
    /\ \E x \in c_inplace[1].unpack :
           /\ Len(x[2]) < Len(x[1])
           /\ \E i \in 1..(Len(x[1]) - 3) :
                  /\ x[1][i] = 16 /\ x[1][i + 1] = 0
                  /\ x[1][i + 2] # x[1][i + 3]
    /\ \E x \in c_inplace[1].parse :
           x[2].ret = "ok" /\ Len(x[2].msg) >= 2 /\ 16 \in Range(x[2].msg)

\* ------------------------------------------------------------------------
\* Frame sizes (checked under SizeSpec)
\* ------------------------------------------------------------------------

\* the number of bytes of s that aqualink_pack escapes
Count10(s) == Cardinality({i \in DOMAIN s : s[i] = ESC})

\* C17 as stated: for every payload with 2 <= len <= 30 the frame written by
\* aqualink_msg_to_frame is at most 32 bytes long and rs485_queue_frame does
\* not refuse it as oversized.
C17_FrameSizeBound ==
    (c_frame # <<>> /\ Len(c_msg) >= 2 /\ Len(c_msg) <= 30) =>
        /\ Len(c_frame[1]) <= 32
        /\ ev.ret # "E2BIG"

\* C17 (amended): the frame of a payload of len bytes is len + 5 bytes long,
\* plus one for each 10 in the payload, plus one when the checksum is 10.
\* It is at most 32 bytes for every payload with 2 <= len <= 13 and more
\* than 32 bytes for every payload with len >= 28; rs485_queue_frame refuses
\* exactly the frames longer than 32 bytes.
C17_FrameSize ==
    c_frame # <<>> =>
        LET n == Len(c_frame[1])
        IN  /\ n = Len(c_msg) + Count10(c_msg) + 5
                   + (IF mod256_sum(aq_header \o c_msg) = 16 THEN 1 ELSE 0)
            /\ Len(c_msg) <= 13 => n <= 32
            /\ Len(c_msg) >= 28 => n > 32
            /\ ev.op = "rs485_queue_frame" => (ev.ret = "E2BIG" <=> n > 32)

\* thirteen bytes, each of them escaped, were framed and the frame was taken
\* into the queue
C17_Witness ==
    /\ Len(c_msg) = 13
    /\ Count10(c_msg) = 13
    /\ c_frame # <<>>
    /\ Len(c_frame[1]) = 31
    /\ ev.op = "rs485_queue_frame"
    /\ ev.ret = "ok"
    /\ Len(ctx.pending_frames) = 1

\* ------------------------------------------------------------------------
\* More properties of the engine (checked under Spec)
\* ------------------------------------------------------------------------

\* the frame rs485_notify_read hands to aqualink_handle_frame from the read
\* buffer of c: from the header found to the end of the footer found
FrameFound(c) ==
    Let(memfind(c.stream.r, 1, Len(c.stream.r), aq_header),
        LAMBDA start :
            Let(memfind(c.stream.r, 1, Len(c.stream.r) - (start - 1),
                        aq_footer),
                LAMBDA end : SubSeq(c.stream.r, start, end + 1)))

\* C18: reply dispatch: the handle_reply of a slave is called only when the
\* received frame parses successfully with a payload of at least 2 bytes
\* while a request is at the head of the queue, and the slave it is called
\* on is the registry entry whose address is the destination byte of that
\* head request.
C18_ReplyDispatch ==
    [][(/\ ev'.op = "rs485_notify_read"
        /\ ev'.handled)
           => \E chunk \in RxChunks :
                  /\ FrameArrival(chunk)
                  /\ ctx.pending_frames # <<>>
                  /\ ev'.slave # NULL
                  /\ ev'.slave =
                         lookup_slave(ctx, Head(ctx.pending_frames).buf[3])
                  /\ Let(ParseReceived(FrameFound(Received(chunk))),
                         LAMBDA p : p.ret = "ok" /\ Len(p.msg) >= 2)]_vars

\* the frames of c2's queue that were not in c1's queue
Enqueued(c1, c2) ==
    {c2.pending_frames[i] :
        i \in (Len(c1.pending_frames) + 1)..Len(c2.pending_frames)}

\* C19: the work scheduler polls only connected slaves: every frame that
\* handle_connected_devices enqueues (a request obtained from
\* get_next_request) is addressed to a registry entry whose connected flag
\* is set.
C19_PollsOnlyConnected ==
    [][(ev'.op = "handle_connected_devices" /\ WorkTick) =>
          \A f \in Enqueued(ctx, ctx') :
              /\ lookup_slave(ctx, f.buf[3]) # NULL
              /\ ctx.slaves[lookup_slave(ctx, f.buf[3])].connected]_vars

\* C20: in every reachable state rs485_timeout is pending if and only if the
\* queue of pending frames is not empty and its head has been written to the
\* TTY.
C20_DeadlineIffInFlight ==
    ctx.rs485_timeout.pending <=>
        (ctx.pending_frames # <<>> /\ 1 \in InFlight)

\* rs485_no_response has dropped a silent request and written the next one:
\* the deadline is pending again, for the new head
C20_Witness ==
    /\ ev.op = "rs485_no_response"
    /\ ctx.pending_frames # <<>>
    /\ InFlight = {1}
    /\ ctx.rs485_timeout.pending
    /\ ctx.rs485_timeout.ms = 200

\* C21: a transaction only completes from InFlight: a pending frame leaves
\* the queue only in rs485_notify_read or rs485_no_response and only after
\* it was written to the TTY; a frame that arrives while the head has not
\* been written (it waits for the interframe gap) neither removes that head
\* nor is attributed to a slave.
C21_CompletesFromInFlight ==
    [][/\ Len(ctx'.pending_frames) < Len(ctx.pending_frames) =>
              /\ ev'.op \in {"rs485_notify_read", "rs485_no_response"}
              /\ 1 \in InFlight
       /\ (/\ ev'.op = "rs485_notify_read"
           /\ ctx.pending_frames # <<>>
           /\ ~(1 \in InFlight)) =>
              /\ ctx'.pending_frames = ctx.pending_frames
              /\ ev'.slave = NULL
              /\ ~ev'.handled]_vars

\* C22: interframe_gap and rs485_timeout are never pending at the same time,
\* and the expiry of the response deadline arms no interframe gap: after
\* rs485_no_response the gap is not pending.
C22_GapExcludesDeadline ==
    /\ ~(ctx.interframe_gap.pending /\ ctx.rs485_timeout.pending)
    /\ ev.op = "rs485_no_response" => ~ctx.interframe_gap.pending

\* a reply has ended a transaction: the gap is pending, the next request
\* waits for it and no deadline runs
C22_Witness ==
    /\ ev.op = "rs485_notify_read"
    /\ ctx.interframe_gap.pending
    /\ ctx.interframe_gap.cb = "rs485_send_after_interframe_gap"
    /\ ctx.pending_frames # <<>>
    /\ ~ctx.rs485_timeout.pending

\* the indices of B where the byte pair d starts
PairsAt(B, d) == {i \in 1..(Len(B) - 1) : <<B[i], B[i + 1]>> = d}

\* B holds a header and a footer after the first header
HasFrame(B) ==
    /\ PairsAt(B, aq_header) # {}
    /\ \E j \in PairsAt(B, aq_footer) : j > Min(PairsAt(B, aq_header))

\* the bytes of B from its first header to the end of the first footer after
\* that header
FirstFrame(B) ==
    LET i == Min(PairsAt(B, aq_header))
        j == Min({k \in PairsAt(B, aq_footer) : k > i})
    IN  SubSeq(B, i, j + 1)

\* C23: scanner frame range: when the receive buffer holds a header and the
\* first footer after it, rs485_notify_read hands exactly the bytes from
\* that header to the end of that footer to aqualink_handle_frame in the
\* same callback, whatever bytes precede the header.
C23_ScannerFrameRange ==
    [][ev'.op = "rs485_notify_read" =>
          \A chunk \in RxChunks :
              (FrameArrival(chunk) /\ HasFrame(Received(chunk).stream.r)) =>
                  /\ ev'.scanned
                  /\ ~FooterBeforeHeader(Received(chunk))
                  /\ FrameFound(Received(chunk)) =
                         FirstFrame(Received(chunk).stream.r)]_vars

\* the read buffer of c behind the footer rs485_notify_read finds
BehindFrame(c) ==
    Let(memfind(c.stream.r, 1, Len(c.stream.r), aq_header),
        LAMBDA start :
            Let(memfind(c.stream.r, 1, Len(c.stream.r) - (start - 1),
                        aq_footer),
                LAMBDA end : SubSeq(c.stream.r, end + 2, Len(c.stream.r))))

\* C24: the scanner never rescans a frame: once rs485_notify_read has handed
\* a complete frame to aqualink_handle_frame, the bytes up to the end of
\* that frame are consumed from the receive buffer, so that no later
\* callback parses them again.
C24_NeverRescans ==
    [][(ev'.op = "rs485_notify_read" /\ ev'.scanned) =>
          \A chunk \in RxChunks :
              FrameArrival(chunk) =>
                  ctx'.stream.r = BehindFrame(Received(chunk))]_vars

\* C25: the expiry of the response deadline leaves the registry unchanged:
\* rs485_no_response changes no slave's address, handlers, connected flag or
\* staleness timer, and no timer of the engine but rs485_timeout.
C25_TimeoutKeepsRegistry ==
    [][ev'.op = "rs485_no_response" =>
          /\ ctx'.slaves = ctx.slaves
          /\ ctx'.probe_again = ctx.probe_again
          /\ ctx'.device_work = ctx.device_work
          /\ ctx'.interframe_gap = ctx.interframe_gap
          /\ ctx'.stream.r = ctx.stream.r]_vars

\* the only registered slave is connected, was polled (the second frame
\* written) and did not answer: after the timeout it is still connected and
\* its staleness timer still runs
C25_Witness ==
    /\ ev.op = "rs485_no_response"
    /\ ctx.slaves[1].connected
    /\ ctx.slaves[1].data_expired.pending
    /\ ctx.slaves[2].addr = 0
    /\ ctx.stream.w = <<1, 2>>
    /\ ctx.pending_frames = <<>>

Registered(slaves) ==
    {slaves[k].addr : k \in {n \in 1..NumSlaves : slaves[n].addr # 0}}

C28_LookupFindsExactly ==
    zero_calls = 0 =>
        \A a \in 0..255 :
            IF a \in Registered(ctx.slaves)
            THEN /\ lookup_slave(ctx, a) # NULL
                 /\ ctx.slaves[lookup_slave(ctx, a)].addr = a
            ELSE lookup_slave(ctx, a) = NULL

\* a table with occupied slots followed by empty ones, in which the binary
\* search has to pass empty slots to find the last address
C28_Witness ==
    /\ zero_calls = 0
    /\ ctx.slaves[3].addr # 0
    /\ ctx.slaves[4].addr = 0
    /\ lookup_slave(ctx, ctx.slaves[3].addr) = 3
    /\ lookup_slave(ctx, 0) = NULL

\* ------------------------------------------------------------------------
\* The worst case of a frame (checked under SizeSpec)
\* ------------------------------------------------------------------------

\* C29: for every payload of n >= 1 bytes aqualink_msg_to_frame writes at
\* most 2n + 5 bytes: a payload that consists only of 10 bytes never has the
\* checksum 10, so the stuffing of the payload and of the checksum are never
\* both at their maximum.
C29_WorstCaseLength ==
    (c_frame # <<>> /\ Len(c_msg) >= 1) =>
        /\ Len(c_frame[1]) <= 2 * Len(c_msg) + 5
        /\ Count10(c_msg) = Len(c_msg) =>
               mod256_sum(aq_header \o c_msg) # 16

\* the bound is reached: thirteen bytes 10 and one byte 2e, checksum 10, give
\* a frame of 2 * 14 + 5 bytes
C29_Witness ==
    /\ c_frame # <<>>
    /\ Len(c_msg) = 14
    /\ Count10(c_msg) = 13
    /\ mod256_sum(aq_header \o c_msg) = 16
    /\ Len(c_frame[1]) = 33

\* ------------------------------------------------------------------------
\* Progress of the queue (checked under LiveSpec)
\* ------------------------------------------------------------------------

\* C30: no stall: in every reachable state with a non-empty queue either
\* rs485_timeout is pending or interframe_gap is pending with
\* rs485_send_after_interframe_gap installed; and when the event loop runs
\* and fires its pending timers, a non-empty queue is eventually empty, so
\* every frame in it is eventually removed.
C30_NoStall ==
    /\ [](ctx.pending_frames # <<>> =>
             \/ ctx.rs485_timeout.pending
             \/ /\ ctx.interframe_gap.pending
                /\ ctx.interframe_gap.cb = "rs485_send_after_interframe_gap")
    /\ (pc = "running" /\ ctx.pending_frames # <<>>)
           ~> (ctx.pending_frames = <<>> \/ pc # "running")

\* a scheduler has enqueued a frame on an empty queue during the interframe
\* gap: nothing is written, and the gap carries the callback that will
\* write it
C30_Witness ==
    /\ pc = "running"
    /\ ev.op \in {"probe_bus", "handle_connected_devices"}
    /\ Len(ctx.pending_frames) = 1
    /\ InFlight = {}
    /\ ~ctx.rs485_timeout.pending
    /\ ctx.interframe_gap.pending
    /\ ctx.interframe_gap.cb = "rs485_send_after_interframe_gap"

\* ------------------------------------------------------------------------
\* The staleness timer of a connected slave (checked under Spec)
\* ------------------------------------------------------------------------

\* C31: in every reachable state a slave whose connected flag is set has its
\* data_expired timer pending with dev_clear_okay installed as its callback:
\* connected never stays set without a running staleness timer.
C31_ConnectedHasTimer ==
    \A k \in 1..NumSlaves :
        ctx.slaves[k].connected =>
            /\ ctx.slaves[k].data_expired.pending
            /\ ctx.slaves[k].data_expired.cb = "dev_clear_okay"

\* two slaves were connected; the staleness timer of one has just expired
\* and cleared its flag, the other is still connected with its timer running
C31_Witness ==
    /\ ev.op = "data_expired"
    /\ \E k, n \in 1..NumSlaves :
        /\ ctx.slaves[k].connected
        /\ ctx.slaves[k].data_expired.pending
        /\ ctx.slaves[n].addr # 0
        /\ ~ctx.slaves[n].connected
        /\ ~ctx.slaves[n].data_expired.pending
        /\ ctx.slaves[n].data_expired.cb = "dev_clear_okay"

\* ------------------------------------------------------------------------
\* The effect of add_slave on the other entries (checked under LateSpec)
\* ------------------------------------------------------------------------

====
